---- MODULE Spec2Model ----
(***************************************************************************)
(* A model of transform_spritesheet (src/src/main.rs): TextureConverter    *)
(* reads a flat texture map (BLOCKS columns by SIDES rows of 16x16 faces), *)
(* normalises transparent pixels, builds a palette, slices the map into    *)
(* faces, projects the three faces of every block into a 32x32 isometric   *)
(* tile and writes the tiles out as the text of a Rust constant.           *)
(*                                                                         *)
(* A pixel is the tuple <<r, g, b, a>> of its four u8 channels.  Vectors   *)
(* of the program are sequences, so index i of the code is index i + 1     *)
(* here.  The f32 values of the projector are all multiples of 0.25 of     *)
(* small magnitude, which f32 represents exactly; the model holds them as  *)
(* integers counting quarters.                                             *)
(*                                                                         *)
(* The source fixes BLOCKS = 23.  Every block is sliced, projected and     *)
(* written by the same code, independently of the other blocks, so the     *)
(* model takes the number of blocks as a bound; every other constant has   *)
(* the value the source gives it.                                          *)
(***************************************************************************)
EXTENDS Integers, Sequences, FiniteSets, TLC

\* ------------------------------------------------------------ constants

TEXTURE_SRC_SIZE == 16

BLOCKS == 2

SIDES == 3

TEXTURE_WIDTH == TEXTURE_SRC_SIZE * BLOCKS

TEXTURE_HEIGHT == TEXTURE_SRC_SIZE * SIDES

ISOMETRIC_WIDTH == TEXTURE_SRC_SIZE * 2

ISOMETRIC_HEIGHT == TEXTURE_SRC_SIZE * 2

\* The placeholder pixel new() fills both texture vectors with.
Placeholder == <<255, 0, 255, 255>>

\* vec![Rgba([255, 0, 255, 255]); 16 * 16]
empty_face == [i \in 1..(TEXTURE_SRC_SIZE * TEXTURE_SRC_SIZE) |-> Placeholder]

\* vec![Rgba([255, 0, 255, 255]); 32 * 31]
empty_face_isometric == [i \in 1..(32 * 31) |-> Placeholder]

\* ------------------------------------------------------------ bounds

\* Input images are numbered 0..MaxSeed.
MaxSeed == 3

\* At most this many calls of write_all return an error in one run.
MaxWriteErrors == 1

\* ------------------------------------------------------------ inputs

\* The colours the input images are painted with: transparent pixels of
\* several colours, opaque and half-transparent ones, odd channels, and a
\* colour (4th) that equals the water variant of another (2nd).
InputColors ==
    << <<10, 20, 30, 0>>, <<200, 100, 9, 255>>, <<255, 255, 255, 0>>,
       <<100, 50, 127, 255>>, <<51, 101, 201, 128>>, <<0, 0, 0, 0>>,
       <<255, 0, 0, 255>>, <<1, 1, 1, 255>> >>

\* Image number seed, as the decoded RGBA buffer: row-major, TEXTURE_WIDTH
\* by TEXTURE_HEIGHT pixels, painted with the first seed + 3 colours.
InputImage(seed) ==
    [i \in 1..(TEXTURE_WIDTH * TEXTURE_HEIGHT) |->
        LET x == (i - 1) % TEXTURE_WIDTH
            y == (i - 1) \div TEXTURE_WIDTH
            k == (x + 3 * y + (y \div TEXTURE_SRC_SIZE)
                    + seed * (x \div TEXTURE_SRC_SIZE)) % (seed + 3)
        IN  InputColors[(k % Len(InputColors)) + 1]]

\* The length in bytes the target file may have before the run: absent or
\* empty, a short file, a file longer than any text the run generates.
PriorFileLens == {0, 64, 4000000}

\* ------------------------------------------------------------ state

VARIABLES
    pc,                 \* position in generate_rust_texture_source
    source,             \* the decoded pixels of the file at texture_map_path
    img,                \* self.img, row-major
    palette,            \* self.palette
    unmodified_texture, \* self.unmodified_texture
    isometric_texture,  \* self.isometric_texture
    iso_i,              \* blocks set_isometric_texture_source has done
    passes,             \* the destination coordinates each face pass of the
                        \* latest transform_isometric_texture call wrote to
    old_len,            \* bytes the target file held before the run
    file_text,          \* what the run has written to the target file
    file_pos,           \* the file cursor, in bytes
    contents,           \* save_textures' local string
    save_k,             \* textures save_textures' loop has gone through
    write_errors        \* the Err results write_all returned

vars == <<pc, source, img, palette, unmodified_texture, isometric_texture,
          iso_i, passes, old_len, file_text, file_pos, contents, save_k,
          write_errors>>

\* ------------------------------------------------------------ image

\* RgbaImage::get_pixel(x, y) on a buffer TEXTURE_WIDTH pixels wide.
get_pixel(image, x, y) == image[y * TEXTURE_WIDTH + x + 1]

\* ------------------------------------------------------------ normalisation

\* A variant of normalize_pixel that forgets the blue channel.
normalize_pixel_keeps_blue(p) ==
    IF p[4] = 0 THEN <<0, 0, p[3], p[4]>> ELSE p

normalize_pixel(p) ==
    IF p[4] = 0 THEN <<0, 0, 0, p[4]>> ELSE p

normalize_transparent_pixels(image) ==
    [i \in 1..Len(image) |-> normalize_pixel(image[i])]

\* ------------------------------------------------------------ palette

Contains(s, e) == \E i \in 1..Len(s) : s[i] = e

\* `if !self.palette.contains(pixel) { self.palette.push(*pixel) }`
push_unique(pal, pixel) ==
    IF Contains(pal, pixel) THEN pal ELSE Append(pal, pixel)

\* The first loop of fill_palette over pixels lo..hi of the buffer, in
\* order: the pixels of the first half, then those of the second.  (The
\* test on Len makes TLC finish the first half before it starts the second.)
RECURSIVE PushUnique(_, _, _, _)
PushUnique(pal, image, lo, hi) ==
    IF lo > hi THEN pal
    ELSE IF lo = hi THEN push_unique(pal, image[lo])
    ELSE LET mid == (lo + hi) \div 2
             first == PushUnique(pal, image, lo, mid)
         IN  IF Len(first) >= 0 THEN PushUnique(first, image, mid + 1, hi)
             ELSE first

\* A variant of water that halves blue instead of setting it to 255 / 2.
water_blue_halved(color) ==
    <<color[1] \div 2, color[2] \div 2, color[3] \div 2, color[4]>>

water(color) == <<color[1] \div 2, color[2] \div 2, 255 \div 2, color[4]>>

shadow(color) ==
    <<color[1] \div 2, color[2] \div 2, color[3] \div 2, color[4]>>

\* The water loop: a variant of every entry of the snapshot, appended.
push_water(pal) == pal \o [i \in 1..Len(pal) |-> water(pal[i])]

\* The shadow loop, likewise.
push_shadow(pal) == pal \o [i \in 1..Len(pal) |-> shadow(pal[i])]

fill_palette(pal, image) ==
    push_shadow(push_water(PushUnique(pal, image, 1, Len(image))))

\* ------------------------------------------------------------ faces

\* The palette entry `find` returns: the first one equal to p.
\* (Callers check Contains first: `unwrap` panics on None.)
palette_find(pal, p) ==
    pal[CHOOSE i \in 1..Len(pal) :
            pal[i] = p /\ \A j \in 1..(i - 1) : pal[j] # p]

\* The texture and the offset in it that iteration (row, col) assigns.
face_index(row, col) ==
    (col \div TEXTURE_SRC_SIZE) + ((row \div TEXTURE_SRC_SIZE) * SIDES)

\* A variant of face_offset with the local x and y exchanged.
face_offset_transposed(row, col) ==
    (col % TEXTURE_SRC_SIZE) + (row % TEXTURE_SRC_SIZE) * TEXTURE_SRC_SIZE

face_offset(row, col) ==
    (row % TEXTURE_SRC_SIZE) + (col % TEXTURE_SRC_SIZE) * TEXTURE_SRC_SIZE

\* The body of the loops: one element of one texture is assigned.
set_face_pixel(textures, pal, image, row, col) ==
    [textures EXCEPT ![face_index(row, col) + 1][face_offset(row, col) + 1] =
        palette_find(pal, get_pixel(image, row, col))]

\* The inner loop, `for col in 0..TEXTURE_HEIGHT`, from col on.  (The test
\* on Len makes TLC finish an iteration before it starts the next.)
RECURSIVE SetColumn(_, _, _, _, _)
SetColumn(textures, pal, image, row, col) ==
    IF col >= TEXTURE_HEIGHT THEN textures
    ELSE LET next == set_face_pixel(textures, pal, image, row, col)
         IN  IF Len(next) >= 0 THEN SetColumn(next, pal, image, row, col + 1)
             ELSE next

\* The outer loop, `for row in 0..TEXTURE_WIDTH`, from row on.
RECURSIVE SetRows(_, _, _, _)
SetRows(textures, pal, image, row) ==
    IF row >= TEXTURE_WIDTH THEN textures
    ELSE LET next == SetColumn(textures, pal, image, row, 0)
         IN  IF Len(next) >= 0 THEN SetRows(next, pal, image, row + 1)
             ELSE next

set_unmodified_texture_source(textures, pal, image) ==
    SetRows(textures, pal, image, 0)

\* Whether some iteration's `find` returns None.
palette_miss(pal, image) ==
    \E i \in 1..Len(image) : ~Contains(pal, image[i])

\* ------------------------------------------------------------ f32, Vec2, Mat2

\* 1.0 and 0.5, in quarters.
One == 2 * 2

Half == One \div 2

\* An integer as f32.
F(n) == n * One

fmul(a, b) == (a * b) \div One

recip(a) == (One * One) \div a

floor(a) == a \div One

\* Mat2::from_cols_array_2d(&[[a, b], [c, d]]): x_axis (a, b), y_axis (c, d).
\* A matrix is <<x_axis, y_axis>>.
mul_vec2(m, v) ==
    << fmul(m[1][1], v[1]) + fmul(m[2][1], v[2]),
       fmul(m[1][2], v[1]) + fmul(m[2][2], v[2]) >>

determinant(m) == fmul(m[1][1], m[2][2]) - fmul(m[1][2], m[2][1])

inverse(m) ==
    LET inv_det == recip(determinant(m))
    IN  << <<fmul(m[2][2], inv_det), fmul(m[1][2], -inv_det)>>,
           <<fmul(m[2][1], -inv_det), fmul(m[1][1], inv_det)>> >>

\* A variant of fits_inside_rect whose upper bounds are inclusive.
fits_inside_rect_le(v, rect_size) ==
    v[1] <= rect_size /\ v[2] <= rect_size /\ v[1] >= 0 /\ v[2] >= 0

fits_inside_rect(v, rect_size) ==
    v[1] < rect_size /\ v[2] < rect_size /\ v[1] >= 0 /\ v[2] >= 0

\* ------------------------------------------------------------ projector

\* A variant of top_offset one row higher.
top_offset_less == (ISOMETRIC_HEIGHT \div 4) - 1

top_offset == ISOMETRIC_HEIGHT \div 4

transformation_matrix == << <<One, -Half>>, <<One, Half>> >>

\* A variant of left_shear_matrix with the right face's shear.
left_shear_matrix_positive == << <<One, Half>>, <<0, One>> >>

left_shear_matrix == << <<One, -Half>>, <<0, One>> >>

center == F(ISOMETRIC_HEIGHT) \div 2

right_shear_matrix == << <<One, Half>>, <<0, One>> >>

top_sample(x, y) ==
    mul_vec2(inverse(transformation_matrix), <<F(x), F(y) - F(top_offset)>>)

left_sample(x, y) ==
    mul_vec2(left_shear_matrix, <<F(x), F(y) - F(top_offset)>>)

right_sample(x, y) ==
    mul_vec2(right_shear_matrix, <<F(x) - center, F(y) - center>>)

\* A variant of sample_idx with sx and sy exchanged.
sample_idx_swapped(sample_pos) ==
    floor(sample_pos[2]) + floor(sample_pos[1]) * TEXTURE_SRC_SIZE

\* sx as usize + sy as usize * 16
sample_idx(sample_pos) ==
    floor(sample_pos[1]) + floor(sample_pos[2]) * TEXTURE_SRC_SIZE

\* The coordinates the loops `0..=ISOMETRIC_HEIGHT`, `0..=ISOMETRIC_WIDTH` visit.
Iterated == (0..ISOMETRIC_WIDTH) \X (0..ISOMETRIC_HEIGHT)

\* The sample position of destination (x, y) in the pass of `side`.
sample(side, x, y) ==
    CASE side = "top"   -> top_sample(x, y)
      [] side = "left"  -> left_sample(x, y)
      [] side = "right" -> right_sample(x, y)

\* The destinations a pass writes: those whose sample fits.
accepted(side) ==
    {d \in Iterated :
        fits_inside_rect(sample(side, d[1], d[2]), F(TEXTURE_SRC_SIZE))}

\* `out[y][x] = face[idx]` panics when y or x is not an index of the canvas
\* or idx is not one of the face.
write_panics(face, side) ==
    \E d \in accepted(side) :
        \/ d[1] >= ISOMETRIC_WIDTH
        \/ d[2] >= ISOMETRIC_HEIGHT
        \/ sample_idx(sample(side, d[1], d[2])) >= Len(face)

\* One pass over the canvas `out` (a sequence of rows): each iteration
\* writes at most its own element out[y][x].
pass(out, face, side) ==
    [y1 \in 1..ISOMETRIC_HEIGHT |->
        [x1 \in 1..ISOMETRIC_WIDTH |->
            IF fits_inside_rect(sample(side, x1 - 1, y1 - 1), F(TEXTURE_SRC_SIZE))
            THEN face[sample_idx(sample(side, x1 - 1, y1 - 1)) + 1]
            ELSE out[y1][x1]]]

\* Vec<Vec<_>>::concat
concat(rows) ==
    [i \in 1..(Len(rows) * ISOMETRIC_WIDTH) |->
        rows[((i - 1) \div ISOMETRIC_WIDTH) + 1][((i - 1) % ISOMETRIC_WIDTH) + 1]]

blank_canvas ==
    [y1 \in 1..ISOMETRIC_HEIGHT |-> [x1 \in 1..ISOMETRIC_WIDTH |-> <<0, 0, 0, 0>>]]

\* Whether a call panics: some pass writes out of range.
transform_panics(top, left, right) ==
    \/ write_panics(top, "top")
    \/ write_panics(left, "left")
    \/ write_panics(right, "right")

\* The tile a call returns: the top pass, then the left, then the right.
transform_isometric_texture(top, left, right) ==
    concat(pass(pass(pass(blank_canvas, top, "top"), left, "left"),
                right, "right"))

\* The destinations the three passes of a call write to.
transform_writes ==
    [top   |-> accepted("top"),
     left  |-> accepted("left"),
     right |-> accepted("right")]

\* ------------------------------------------------------------ emitter

\* The generated text is held as the sequence of its pieces:
\*   <<"decl", size, blocks>>  "pub const TEXTURES: [[[u8; 4]; {size}]; {BLOCKS}] = [\n"
\*   <<"tile", pixels>>        "[\n", "[{r}, {g}, {b}, {a}]," per pixel, "],\n"
\*   <<"end">>                 "];"
\* and ByteLen gives the bytes each piece takes in the file.
decl_piece == <<"decl", ISOMETRIC_HEIGHT * ISOMETRIC_WIDTH, BLOCKS>>

tile_piece(texture) == <<"tile", texture>>

end_piece == <<"end">>

\* The length of `{n}` for an unsigned n.
RECURSIVE DecimalLen(_)
DecimalLen(n) == IF n < 10 THEN 1 ELSE 1 + DecimalLen(n \div 10)

\* "[{r}, {g}, {b}, {a}],"
PixelLen(p) ==
    DecimalLen(p[1]) + DecimalLen(p[2]) + DecimalLen(p[3]) + DecimalLen(p[4]) + 9

\* The bytes of pixels lo..hi of a texture.
RECURSIVE PixelsLen(_, _, _)
PixelsLen(pixels, lo, hi) ==
    IF lo > hi THEN 0
    ELSE IF lo = hi THEN PixelLen(pixels[lo])
    ELSE LET mid == (lo + hi) \div 2
         IN  PixelsLen(pixels, lo, mid) + PixelsLen(pixels, mid + 1, hi)

ByteLen(piece) ==
    CASE piece[1] = "decl" ->
            31 + DecimalLen(piece[2]) + 3 + DecimalLen(piece[3]) + 6
      [] piece[1] = "tile" -> 2 + PixelsLen(piece[2], 1, Len(piece[2])) + 3
      [] piece[1] = "end"  -> 2

RECURSIVE TextLen(_, _)
TextLen(pieces, i) ==
    IF i > Len(pieces) THEN 0 ELSE ByteLen(pieces[i]) + TextLen(pieces, i + 1)

\* The file was opened with create(true).write(true) and nothing else: it is
\* not truncated, and the cursor starts at 0.  Its length is then the larger
\* of its old length and the cursor.
FileLen == IF old_len > file_pos THEN old_len ELSE file_pos

\* ------------------------------------------------------------ actions

Init ==
    /\ pc = "new"
    /\ \E seed \in 0..MaxSeed : source = InputImage(seed)
    /\ img = source
    /\ palette = <<>>
    /\ unmodified_texture = [t \in 1..(BLOCKS * SIDES) |-> empty_face]
    /\ isometric_texture = [t \in 1..(BLOCKS * SIDES) |-> empty_face_isometric]
    /\ iso_i = 0
    /\ passes = [top |-> {}, left |-> {}, right |-> {}]
    /\ old_len \in PriorFileLens
    /\ file_text = <<>>
    /\ file_pos = 0
    /\ contents = <<>>
    /\ save_k = 0
    /\ write_errors = 0

NormalizeTransparentPixels ==
    /\ pc = "new"
    /\ img' = normalize_transparent_pixels(img)
    /\ pc' = "normalized"
    /\ UNCHANGED <<source, palette, unmodified_texture, isometric_texture, iso_i,
                   passes, old_len, file_text, file_pos, contents, save_k,
                   write_errors>>

FillPalette ==
    /\ pc = "normalized"
    /\ palette' = fill_palette(palette, img)
    /\ pc' = "palette"
    /\ UNCHANGED <<source, img, unmodified_texture, isometric_texture, iso_i,
                   passes, old_len, file_text, file_pos, contents, save_k,
                   write_errors>>

SetUnmodifiedTextureSource ==
    /\ pc = "palette"
    /\ IF palette_miss(palette, img)
       THEN /\ pc' = "panicked"
            /\ UNCHANGED unmodified_texture
       ELSE /\ unmodified_texture' =
                    set_unmodified_texture_source(unmodified_texture, palette, img)
            /\ pc' = "faces"
    /\ UNCHANGED <<source, img, palette, isometric_texture, iso_i, passes,
                   old_len, file_text, file_pos, contents, save_k, write_errors>>

\* One iteration of set_isometric_texture_source's loop over
\* chunks_exact(3); after the last chunk the function returns.
SetIsometricTextureSource ==
    /\ pc = "faces"
    /\ iso_i < Len(unmodified_texture) \div 3
    /\ LET top   == unmodified_texture[3 * iso_i + 1]
           left  == unmodified_texture[3 * iso_i + 2]
           right == unmodified_texture[3 * iso_i + 3]
       IN  /\ passes' = transform_writes
           /\ IF transform_panics(top, left, right) \/ iso_i >= Len(isometric_texture)
              THEN /\ pc' = "panicked"
                   /\ UNCHANGED <<isometric_texture, iso_i>>
              ELSE /\ isometric_texture' =
                            [isometric_texture EXCEPT ![iso_i + 1] =
                                transform_isometric_texture(top, left, right)]
                   /\ iso_i' = iso_i + 1
                   /\ pc' = IF iso_i + 1 < Len(unmodified_texture) \div 3
                            THEN "faces" ELSE "debug"
    /\ UNCHANGED <<source, img, palette, unmodified_texture, old_len, file_text,
                   file_pos, contents, save_k, write_errors>>

\* debug_draw writes a preview to /tmp/imagesink and changes nothing of the
\* converter; opening, sizing, mapping or locking that file may panic.
DebugDraw ==
    /\ pc = "debug"
    /\ \E ok \in BOOLEAN : pc' = IF ok THEN "save" ELSE "panicked"
    /\ UNCHANGED <<source, img, palette, unmodified_texture, isometric_texture,
                   iso_i, passes, old_len, file_text, file_pos, contents, save_k,
                   write_errors>>

\* save_textures up to its loop: open(path).unwrap(), then the declaration
\* goes into `contents`.
SaveOpen ==
    /\ pc = "save"
    /\ \E ok \in BOOLEAN :
        IF ok
        THEN /\ pc' = "save_loop"
             /\ contents' = <<decl_piece>>
             /\ file_pos' = 0
             /\ save_k' = 0
        ELSE /\ pc' = "panicked"
             /\ UNCHANGED <<contents, file_pos, save_k>>
    /\ UNCHANGED <<source, img, palette, unmodified_texture, isometric_texture,
                   iso_i, passes, old_len, file_text, write_errors>>

\* What write_all may return.
WriteResults == IF write_errors < MaxWriteErrors THEN BOOLEAN ELSE {TRUE}

\* file.write_all(contents.as_bytes()); its Result is dropped.  A write
\* that fails is taken to fail before its first byte.
WriteAll(text, ok) ==
    IF ok
    THEN /\ file_text' = file_text \o text
         /\ file_pos' = file_pos + TextLen(text, 1)
         /\ UNCHANGED write_errors
    ELSE /\ write_errors' = write_errors + 1
         /\ UNCHANGED <<file_text, file_pos>>

\* One iteration of `for texture in &self.isometric_texture`.
SaveWrite ==
    /\ pc = "save_loop"
    /\ save_k < Len(isometric_texture)
    /\ \E ok \in WriteResults :
        WriteAll(contents \o <<tile_piece(isometric_texture[save_k + 1])>>, ok)
    /\ contents' = <<>>
    /\ save_k' = save_k + 1
    /\ pc' = IF save_k + 1 < Len(isometric_texture) THEN "save_loop" ELSE "save_end"
    /\ UNCHANGED <<source, img, palette, unmodified_texture, isometric_texture,
                   iso_i, passes, old_len>>

\* The closing "];", and the return from generate_rust_texture_source.
SaveFinish ==
    /\ pc = "save_end"
    /\ \E ok \in WriteResults : WriteAll(contents \o <<end_piece>>, ok)
    /\ contents' = contents \o <<end_piece>>
    /\ pc' = "done"
    /\ UNCHANGED <<source, img, palette, unmodified_texture, isometric_texture,
                   iso_i, passes, old_len, save_k>>

Next ==
    \/ NormalizeTransparentPixels
    \/ FillPalette
    \/ SetUnmodifiedTextureSource
    \/ SetIsometricTextureSource
    \/ DebugDraw
    \/ SaveOpen
    \/ SaveWrite
    \/ SaveFinish

Spec == Init /\ [][Next]_vars

\* ------------------------------------------------------------ claims

\* The pieces of the written text that are tiles, in order.
WrittenTiles == SelectSeq(file_text, LAMBDA piece : piece[1] = "tile")

\* C1: after generate_rust_texture_source (every write having succeeded)
\* the written text holds exactly BLOCKS tiles, each of ISOMETRIC_WIDTH *
\* ISOMETRIC_HEIGHT pixels, as the declaration written before them says.
C1_SerializedTilesMatchDeclaration ==
    (pc = "done" /\ write_errors = 0) =>
        /\ file_text[1] = <<"decl", ISOMETRIC_WIDTH * ISOMETRIC_HEIGHT, BLOCKS>>
        /\ Len(WrittenTiles) = file_text[1][3]
        /\ \A t \in 1..Len(WrittenTiles) :
                Len(WrittenTiles[t][2]) = file_text[1][2]

\* Twice the sample coordinates the claim gives for destination (x, y).
ClaimRight2(x, y) == <<2 * (x - 16), (x - 16) + 2 * (y - 16)>>

ClaimLeft2(x, y) == <<2 * x, 2 * (y - 8) - x>>

ClaimTop2(x, y) == <<x - 2 * (y - 8), x + 2 * (y - 8)>>

\* A doubled sample lies in [0,16)^2.
InFace2(v) == v[1] >= 0 /\ v[1] < 32 /\ v[2] >= 0 /\ v[2] < 32

\* floor(sx) + floor(sy) * 16 of a doubled sample, as a sequence index.
FaceAt2(face, v) == face[(v[1] \div 2) + (v[2] \div 2) * 16 + 1]

\* The pixel the claim gives destination (x, y) of block b's tile.
ClaimPixel(b, x, y) ==
    IF InFace2(ClaimRight2(x, y))
    THEN FaceAt2(unmodified_texture[3 * b + 3], ClaimRight2(x, y))
    ELSE IF InFace2(ClaimLeft2(x, y))
    THEN FaceAt2(unmodified_texture[3 * b + 2], ClaimLeft2(x, y))
    ELSE IF InFace2(ClaimTop2(x, y))
    THEN FaceAt2(unmodified_texture[3 * b + 1], ClaimTop2(x, y))
    ELSE <<0, 0, 0, 0>>

\* Pixel (x, y) of block b's tile.
TilePixel(b, x, y) == isometric_texture[b + 1][x + y * 32 + 1]

\* set_isometric_texture_source is under way or has just returned.
Projecting == pc \in {"faces", "debug"} /\ iso_i >= 1

\* C2: every pixel (x, y), 0 <= x, y < 32, of every projected tile is the
\* right face's pixel if the right sample is in range, else the left
\* face's if the left sample is, else the top face's if the top sample is,
\* else (0,0,0,0).
C2_TilePixelByPriority ==
    Projecting =>
        \A b \in 0..(iso_i - 1) :
            /\ Len(isometric_texture[b + 1]) = 32 * 32
            /\ \A x \in 0..31, y \in 0..31 :
                    TilePixel(b, x, y) = ClaimPixel(b, x, y)

\* A tile is projected that shows a pixel of each face and a blank one.
C2_Witness ==
    /\ Projecting
    /\ \E x \in 0..31, y \in 0..31 :
            InFace2(ClaimRight2(x, y)) /\ TilePixel(0, x, y) # <<0, 0, 0, 0>>
    /\ \E x \in 0..31, y \in 0..31 :
            /\ ~InFace2(ClaimRight2(x, y)) /\ InFace2(ClaimLeft2(x, y))
            /\ TilePixel(0, x, y) # <<0, 0, 0, 0>>
    /\ \E x \in 0..31, y \in 0..31 :
            /\ ~InFace2(ClaimRight2(x, y)) /\ ~InFace2(ClaimLeft2(x, y))
            /\ InFace2(ClaimTop2(x, y))
            /\ TilePixel(0, x, y) # <<0, 0, 0, 0>>
    /\ TilePixel(0, 0, 0) = <<0, 0, 0, 0>>

\* C3: when save_textures has completed (every write having succeeded) the
\* file holds the generated text and nothing else: none of the bytes it
\* held before remain.
C3_FileIsGeneratedText ==
    (pc = "done" /\ write_errors = 0) =>
        /\ file_pos = TextLen(file_text, 1)
        /\ FileLen = file_pos

\* C4: a write that fails is fatal: once write_all has returned an error
\* the run has aborted, as it does when the file cannot be opened.
C4_WriteFailureIsFatal == write_errors > 0 => pc = "panicked"

\* The distinct pixels of the image, and where each is first seen.
DistinctPixels == {img[i] : i \in 1..Len(img)}

FirstSeen(c) == CHOOSE i \in 1..Len(img) : img[i] = c /\ \A j \in 1..(i - 1) : img[j] # c

\* o[k]: the distinct pixels in first-seen raster order.
InFirstSeenOrder ==
    [k \in 1..Cardinality(DistinctPixels) |->
        CHOOSE c \in DistinctPixels :
            Cardinality({d \in DistinctPixels : FirstSeen(d) < FirstSeen(c)}) = k - 1]

\* C5: after fill_palette on an image of U distinct pixels o[0..U) the
\* palette has 4U entries: o, then (r/2, g/2, 127, a) of each of o, then
\* (r/2, g/2, b/2, a) of each of the 2U entries before.
C5_PaletteLayout ==
    pc = "palette" =>
        LET o == InFirstSeenOrder
            U == Len(o)
        IN  /\ Len(palette) = 4 * U
            /\ \A i \in 1..U : palette[i] = o[i]
            /\ \A i \in 1..U :
                    palette[U + i] = <<o[i][1] \div 2, o[i][2] \div 2, 127, o[i][4]>>
            /\ \A j \in 1..(2 * U) :
                    palette[2 * U + j] = <<palette[j][1] \div 2, palette[j][2] \div 2,
                                           palette[j][3] \div 2, palette[j][4]>>

\* A palette is built of three colours or more, one of them twice: a water
\* variant that equals an original.
C5_Witness ==
    /\ pc = "palette"
    /\ LET U == Cardinality(DistinctPixels)
       IN  /\ U >= 3
           /\ \E i \in 1..U : \E j \in (U + 1)..(2 * U) : palette[i] = palette[j]

\* set_unmodified_texture_source has just returned.
Sliced == pc = "faces" /\ iso_i = 0

\* C6: after set_unmodified_texture_source there are BLOCKS * SIDES faces
\* of 256 pixels; pixel (lx, ly) of side s of block b is the palette entry
\* equal to the image's pixel at column 16b + lx, row 16s + ly; and no
\* placeholder is left (the image having no pixel of that colour).
C6_FacesAreImageCells ==
    Sliced =>
        /\ Len(unmodified_texture) = BLOCKS * 3
        /\ \A t \in 1..Len(unmodified_texture) : Len(unmodified_texture[t]) = 256
        /\ \A b \in 0..(BLOCKS - 1), s \in 0..2, lx \in 0..15, ly \in 0..15 :
            LET p == unmodified_texture[b * 3 + s + 1][lx + ly * 16 + 1]
            IN  /\ p = img[(s * 16 + ly) * (16 * BLOCKS) + (b * 16 + lx) + 1]
                /\ \E i \in 1..Len(palette) : palette[i] = p
        /\ (\A i \in 1..Len(img) : img[i] # Placeholder) =>
                \A t \in 1..Len(unmodified_texture), o \in 1..256 :
                    unmodified_texture[t][o] # Placeholder

\* Faces are sliced from an image without the placeholder colour, and the
\* three faces of a block differ.
C6_Witness ==
    /\ Sliced
    /\ \A i \in 1..Len(img) : img[i] # Placeholder
    /\ unmodified_texture[1] # unmodified_texture[2]
    /\ unmodified_texture[2] # unmodified_texture[3]
    /\ unmodified_texture[1][2] # unmodified_texture[1][17]

\* The entries of the palette's original group with alpha 0.
TransparentOriginals ==
    LET U == Cardinality(DistinctPixels)
    IN  {i \in 1..U : palette[i][4] = 0}

\* C7: after normalize_transparent_pixels a pixel whose alpha was 0 is
\* (0,0,0,0) and any other pixel is as it was; and once the palette is
\* filled its original group has at most one entry with alpha 0, which is
\* (0,0,0,0).
C7_TransparentNormalized ==
    /\ pc \in {"normalized", "palette"} =>
        /\ Len(img) = Len(source)
        /\ \A i \in 1..Len(source) :
            /\ source[i][4] = 0 => img[i] = <<0, 0, 0, 0>>
            /\ source[i][4] # 0 => img[i] = source[i]
    /\ pc = "palette" =>
        /\ Cardinality(TransparentOriginals) <= 1
        /\ \A i \in TransparentOriginals : palette[i] = <<0, 0, 0, 0>>

\* The palette is filled from an image that had transparent pixels of two
\* colours, neither of them black, and opaque pixels.
C7_Witness ==
    /\ pc = "palette"
    /\ \E i, j \in 1..Len(source) :
        /\ source[i][4] = 0 /\ source[j][4] = 0
        /\ source[i] # source[j]
        /\ source[i][3] # 0 /\ source[j][3] # 0
    /\ \E i \in 1..Len(source) : source[i][4] # 0
    /\ Cardinality(TransparentOriginals) = 1

\* transform_isometric_texture has been called.
Transformed == passes.top # {}

AllWrites == passes.top \cup passes.left \cup passes.right

\* C8: the loops over 0..=32 by 0..=32 make a write out of range: some
\* destination with x = 32 or y = 32 passes a face's test.
C8_WriteOutOfRange ==
    Transformed => \E d \in AllWrites : d[1] = 32 \/ d[2] = 32

\* C8, amended: the loops visit x = 32 and y = 32, and no destination with
\* x = 32 or y = 32 passes any face's test: every write is inside the
\* 32x32 canvas and the call does not panic.
C8_NoWriteOutOfRange ==
    Transformed =>
        /\ \A d \in AllWrites : d[1] < 32 /\ d[2] < 32
        /\ pc = "panicked" => iso_i = BLOCKS

\* A call has visited (32, 32) and written next to the right edge.
C8_Witness ==
    /\ Transformed
    /\ <<32, 32>> \in Iterated
    /\ <<31, 24>> \in passes.right
    /\ iso_i >= 1

\* C9: row 0 of every tile is blank, no face's test accepting any (x, 0),
\* and a face's test accepts some (x, 1).
C9_OneBlankRow ==
    (Transformed /\ Projecting) =>
        /\ \A d \in AllWrites : d[2] # 0
        /\ \A b \in 0..(iso_i - 1), x \in 0..31 : TilePixel(b, x, 0) = <<0, 0, 0, 0>>
        /\ \E d \in AllWrites : d[2] = 1 /\ d[1] < 32

\* A tile is projected whose row 1 shows a pixel of the top face.
C9_Witness ==
    /\ Projecting
    /\ \E x \in 0..31 :
        /\ <<x, 1>> \in passes.top
        /\ TilePixel(0, x, 1) # <<0, 0, 0, 0>>

\* C10: the destinations of the three passes do not overlap.
C10_PassesDisjoint ==
    Transformed =>
        /\ passes.top \cap passes.left = {}
        /\ passes.top \cap passes.right = {}
        /\ passes.left \cap passes.right = {}

\* C10, amended: the right pass shares no destination with the other two;
\* the top and the left pass share exactly the eight destinations
\* (2k, 8 + k), 0 <= k < 8, where the left face's pixel replaces the top
\* face's.
C10_OnlyTopLeftSeam ==
    Transformed =>
        /\ passes.top \cap passes.right = {}
        /\ passes.left \cap passes.right = {}
        /\ passes.top \cap passes.left = {<<2 * k, 8 + k>> : k \in 0..7}
        /\ Projecting =>
            \A b \in 0..(iso_i - 1), k \in 0..7 :
                TilePixel(b, 2 * k, 8 + k) = unmodified_texture[3 * b + 2][2 * k + 1]

\* A tile is projected where the left face's pixel (0, 0) has replaced a
\* different pixel (0, 0) of the top face at destination (0, 8).
C10_Witness ==
    /\ Projecting
    /\ <<0, 8>> \in passes.top \cap passes.left
    /\ unmodified_texture[1][1] # unmodified_texture[2][1]
    /\ TilePixel(0, 0, 8) = unmodified_texture[2][1]

====
